---- MODULE Spec2Model ----
(***************************************************************************)
(* Model of the alerter service (cmd/main.go): one NATS subscription whose *)
(* callback, processMessage, decodes an Event, fetches the subscription    *)
(* list (fetchAlerts), and for every matching Alert renders the embedded   *)
(* template and posts a mail (sendEmail), logging each outcome.            *)
(*                                                                         *)
(* Strings the code inspects character by character (email addresses,      *)
(* resource identifiers, UUID texts) are sequences of one-character        *)
(* strings.  A UUID is abstracted to two hexadecimal digits; its canonical *)
(* text puts a hyphen between them.                                        *)
(***************************************************************************)
EXTENDS Integers, Sequences, FiniteSets, TLC

\* Longest subscription list the directory returns in the model.
MaxAlerts == 2

StatusOK == 200
StatusNoContent == 204

(***************************************************************************)
(* Text helpers                                                            *)
(***************************************************************************)

\* unicode.SimpleFold restricted to the letters of the model: lower case.
Lower(c) ==
    CASE c = "A" -> "a"
      [] c = "B" -> "b"
      [] OTHER -> c

\* Mutant of EqualFold: byte-for-byte equality.
EqualFoldExact(s, t) ==
    s = t

\* strings.EqualFold(s, t)
EqualFold(s, t) ==
    /\ Len(s) = Len(t)
    /\ \A i \in 1..Len(s) : Lower(s[i]) = Lower(t[i])

HexDigits == {"a", "b", "1"}

\* A decoded uuid.UUID: two lower-case hexadecimal digits.
IsUuid(u) ==
    /\ Len(u) = Len(<<"x", "x">>)
    /\ \A i \in 1..Len(u) : u[i] \in HexDigits

\* uuid.UUID.UnmarshalText: accepts the canonical form "x-y" and the
\* hash-like form "xy", in either letter case; anything else is an error.
ParseUuid(text) ==
    LET digits == IF Len(text) = Len(<<"x", "-", "x">>) /\ text[2] = "-"
                  THEN <<text[1]>> \o SubSeq(text, 3, Len(text))
                  ELSE text
        low == [i \in 1..Len(digits) |-> Lower(digits[i])]
    IN  IF IsUuid(low) THEN [err |-> FALSE, uuid |-> low]
                       ELSE [err |-> TRUE, uuid |-> <<>>]

\* uuid.UUID.String(): the canonical lower-case hyphenated text.
UuidString(u) ==
    <<u[1], "-">> \o SubSeq(u, 2, Len(u))

\* A *uuid.UUID: <<>> is the nil pointer, <<u>> points to u.
NilUuid == <<>>

\* json decoding of one "id" / "resource_id" member into a *uuid.UUID.
\* A wire value is [null |-> TRUE, text |-> <<>>] or [null |-> FALSE, text |-> t].
DecodeUuidPtr(w) ==
    IF w.null THEN [err |-> FALSE, ptr |-> NilUuid]
    ELSE LET p == ParseUuid(w.text)
         IN  IF p.err THEN [err |-> TRUE, ptr |-> NilUuid]
                      ELSE [err |-> FALSE, ptr |-> <<p.uuid>>]

(***************************************************************************)
(* Inputs                                                                  *)
(***************************************************************************)

WNull == [null |-> TRUE, text |-> <<>>]
WText(t) == [null |-> FALSE, text |-> t]

EmailBob == <<"b", "@", "x">>
EmailNoLocal == <<"@", "x">>
EmailNoDomain == <<"e", "@">>
EmailNoAt == <<"e", "x">>
EmailTwoAt == <<"e", "@", "@", "x">>

\* Records the directory can put in its JSON array.
WireAlerts ==
    { [id |-> WText(<<"a", "-", "1">>), email |-> EmailBob, all |-> TRUE, resource_id |-> WNull],
      [id |-> WText(<<"a", "-", "1">>), email |-> EmailBob, all |-> FALSE, resource_id |-> WText(<<"A", "-", "1">>)],
      [id |-> WText(<<"b", "-", "1">>), email |-> EmailNoAt, all |-> FALSE, resource_id |-> WNull],
      [id |-> WText(<<"b", "-", "1">>), email |-> EmailNoLocal, all |-> TRUE, resource_id |-> WText(<<"b", "-", "1">>)],
      [id |-> WText(<<"b", "b">>), email |-> EmailTwoAt, all |-> FALSE, resource_id |-> WText(<<"a", "1">>)],
      [id |-> WNull, email |-> EmailNoDomain, all |-> FALSE, resource_id |-> WText(<<"b", "-", "1">>)],
      [id |-> WText(<<"z">>), email |-> EmailBob, all |-> TRUE, resource_id |-> WNull],
      [id |-> WText(<<"a", "-", "1">>), email |-> EmailBob, all |-> FALSE, resource_id |-> WText(<<"a", "-", "z">>)] }

RECURSIVE SeqsUpTo(_, _)
SeqsUpTo(S, n) ==
    IF n = 0 THEN {<<>>}
    ELSE LET shorter == SeqsUpTo(S, n - 1)
         IN  shorter \cup {Append(s, x) : s \in {t \in shorter : Len(t) = n - 1}, x \in S}

\* Response bodies of the directory: a JSON array of records, or garbage.
Bodies ==
    {[json |-> TRUE, records |-> l] : l \in SeqsUpTo(WireAlerts, MaxAlerts)}
        \cup {[json |-> FALSE, records |-> <<>>]}

NoBody == [json |-> FALSE, records |-> <<>>]

\* What client.Get(configURL) yields: a transport error, or a status and a body.
DirectoryResponses ==
    {[neterr |-> TRUE, status |-> 0, body |-> NoBody]}
        \cup {[neterr |-> FALSE, status |-> StatusOK, body |-> b] : b \in Bodies}
        \cup {[neterr |-> FALSE, status |-> s, body |-> b] : s \in {404, 500}, b \in Bodies}

\* What client.Do(req) yields for the mail POST.
MailReplies ==
    {[neterr |-> TRUE, status |-> 0]}
        \cup {[neterr |-> FALSE, status |-> s] : s \in {200, 201, 202, 204, 500}}

NoReply == [neterr |-> FALSE, status |-> 0]

ResourceIDs ==
    { <<>>, <<"a", "-", "1">>, <<"A", "-", "1">>, <<"a", "1">>, <<"b", "-", "1">> }

LastModifieds == {"", "20240115T093000Z"}

\* The Event a payload decodes to (zero value when it does not decode).
ZeroEvent == [Id |-> "", LastModified |-> "", ResourceID |-> <<>>]

Events ==
    [Id : {"uid-1"}, LastModified : LastModifieds, ResourceID : ResourceIDs]

\* Inbound payloads: JSON that decodes into an Event, or not.
Payloads ==
    {[json |-> TRUE, event |-> e] : e \in Events}
        \cup {[json |-> FALSE, event |-> ZeroEvent]}

\* Outcomes of rendering templates/alert.txt against one event's context.
TemplateOutcomes == {"ok", "error"}

\* Process environment read by sendEmail: MAIL_TOKEN, and whether
\* MAIL_API_URL is a URL http.NewRequest accepts.
Environments ==
    [token : {"", "secret"}, mailURLValid : BOOLEAN]

(***************************************************************************)
(* Pure parts of the code                                                  *)
(***************************************************************************)

\* Mutant of JsonUnmarshalEvent: the decode error is dropped.
JsonUnmarshalEventIgnoringError(payload) ==
    [err |-> FALSE, event |-> payload.event]

\* json.Unmarshal(m.Data, &event)
JsonUnmarshalEvent(payload) ==
    IF payload.json THEN [err |-> FALSE, event |-> payload.event]
                    ELSE [err |-> TRUE, event |-> ZeroEvent]

\* Mutant of IsNewOf: the comparison is inverted.
IsNewOfInverted(ev) ==
    ev.LastModified # ""

\* isNew := event.LastModified == ""
IsNewOf(ev) ==
    ev.LastModified = ""

\* Decoding of one array element into an Alert.
DecodeAlert(w) ==
    LET i == DecodeUuidPtr(w.id)
        r == DecodeUuidPtr(w.resource_id)
    IN  [err |-> i.err \/ r.err,
         alert |-> [Id |-> i.ptr, Email |-> w.email, All |-> w.all, ResourceId |-> r.ptr]]

\* Mutant of DecodeAlerts: records that do not decode are skipped silently.
DecodeAlertsLenient(body) ==
    LET good == SelectSeq(body.records, LAMBDA w : ~DecodeAlert(w).err)
    IN  IF ~body.json THEN [err |-> TRUE, alerts |-> <<>>]
        ELSE [err |-> FALSE, alerts |-> [k \in 1..Len(good) |-> DecodeAlert(good[k]).alert]]

\* json.NewDecoder(resp.Body).Decode(&alerts)
DecodeAlerts(body) ==
    LET decoded == [k \in 1..Len(body.records) |-> DecodeAlert(body.records[k])]
    IN  IF ~body.json \/ \E k \in 1..Len(decoded) : decoded[k].err
        THEN [err |-> TRUE, alerts |-> <<>>]
        ELSE [err |-> FALSE, alerts |-> [k \in 1..Len(decoded) |-> decoded[k].alert]]

\* fetchAlerts(), given what the GET yields.
FetchAlerts(resp) ==
    IF resp.neterr THEN [err |-> TRUE, alerts |-> <<>>]
    ELSE IF resp.status # StatusOK THEN [err |-> TRUE, alerts |-> <<>>]
    ELSE DecodeAlerts(resp.body)

\* Mutant of Matches: every subscription applies.
MatchesEverything(ev, alert) ==
    TRUE

\* Mutant of Matches: the All flag is not consulted.
MatchesResourceOnly(ev, alert) ==
    /\ alert.ResourceId # NilUuid
    /\ EqualFold(ev.ResourceID, UuidString(alert.ResourceId[1]))

\* Mutant of Matches: a nil resource identifier is compared as the empty text.
MatchesNilAsEmpty(ev, alert) ==
    \/ alert.All
    \/ EqualFold(ev.ResourceID,
                 IF alert.ResourceId = NilUuid THEN <<>> ELSE UuidString(alert.ResourceId[1]))

\* apply := alert.All || (alert.ResourceId != nil &&
\*              strings.EqualFold(event.ResourceID, alert.ResourceId.String()))
Matches(ev, alert) ==
    \/ alert.All
    \/ /\ alert.ResourceId # NilUuid
       /\ EqualFold(ev.ResourceID, UuidString(alert.ResourceId[1]))

\* body := map[string]interface{}{"Event": event, "IsNew": isNew}
RenderContext(ev, new) ==
    [Event |-> ev, IsNew |-> new]

NoContext == [Event |-> ZeroEvent, IsNew |-> FALSE]

\* Mutant of GetStringFromEmbeddedTemplate: the error is not returned.
GetStringIgnoringError(outcome, body) ==
    [err |-> FALSE, subject |-> [part |-> "subject", of |-> body],
                    content |-> [part |-> "content", of |-> body]]

\* GetStringFromEmbeddedTemplate(templatePath, body): the embedded template
\* is fixed, so the result depends on the context alone.
GetStringFromEmbeddedTemplate(outcome, body) ==
    IF outcome = "ok"
    THEN [err |-> FALSE, subject |-> [part |-> "subject", of |-> body],
                         content |-> [part |-> "content", of |-> body]]
    ELSE [err |-> TRUE, subject |-> [part |-> "", of |-> NoContext],
                        content |-> [part |-> "", of |-> NoContext]]

\* Mutant of SendEmail: a transport error is retried once.
SendEmailRetrying(environ, reply) ==
    IF ~environ.mailURLValid THEN [err |-> TRUE, posts |-> 0, reply |-> NoReply]
    ELSE IF environ.token = "" THEN [err |-> TRUE, posts |-> 0, reply |-> NoReply]
    ELSE IF reply.neterr THEN [err |-> TRUE, posts |-> 2, reply |-> reply]
    ELSE IF reply.status # StatusNoContent THEN [err |-> TRUE, posts |-> 1, reply |-> reply]
    ELSE [err |-> FALSE, posts |-> 1, reply |-> reply]

\* Mutant of SendEmail: every 2xx status counts as success.
SendEmailAny2xx(environ, reply) ==
    IF ~environ.mailURLValid THEN [err |-> TRUE, posts |-> 0, reply |-> NoReply]
    ELSE IF environ.token = "" THEN [err |-> TRUE, posts |-> 0, reply |-> NoReply]
    ELSE IF reply.neterr THEN [err |-> TRUE, posts |-> 1, reply |-> reply]
    ELSE IF reply.status < 200 \/ reply.status >= 300 THEN [err |-> TRUE, posts |-> 1, reply |-> reply]
    ELSE [err |-> FALSE, posts |-> 1, reply |-> reply]

\* sendEmail(to, subject, content): reply is what the endpoint answers if
\* the POST is made.
SendEmail(environ, reply) ==
    IF ~environ.mailURLValid THEN [err |-> TRUE, posts |-> 0, reply |-> NoReply]
    ELSE IF environ.token = "" THEN [err |-> TRUE, posts |-> 0, reply |-> NoReply]
    ELSE IF reply.neterr THEN [err |-> TRUE, posts |-> 1, reply |-> reply]
    ELSE IF reply.status # StatusNoContent THEN [err |-> TRUE, posts |-> 1, reply |-> reply]
    ELSE [err |-> FALSE, posts |-> 1, reply |-> reply]

\* strings.Split(s, "@")
RECURSIVE SplitAt(_)
SplitAt(s) ==
    IF \A i \in 1..Len(s) : s[i] # "@" THEN <<s>>
    ELSE LET k == CHOOSE i \in 1..Len(s) : s[i] = "@" /\ \A j \in 1..(i - 1) : s[j] # "@"
         IN  <<SubSeq(s, 1, k - 1)>> \o SplitAt(SubSeq(s, k + 1, Len(s)))

FixedMask == <<"*", "*", "*", "@", "*", "*", "*">>

\* maskEmail(email): indexing an empty part is a run-time panic.
MaskEmail(email) ==
    LET parts == SplitAt(email)
    IN  IF Len(parts) # 2 THEN [panic |-> FALSE, text |-> FixedMask]
        ELSE IF Len(parts[1]) = 0 \/ Len(parts[2]) = 0 THEN [panic |-> TRUE, text |-> <<>>]
        ELSE [panic |-> FALSE,
              text |-> <<parts[1][1], "*", "*", "*", "@", "*", "*", "*", parts[2][Len(parts[2])]>>]

(***************************************************************************)
(* State                                                                   *)
(***************************************************************************)

VARIABLES
    pc,          \* where the callback is: "idle", "decoded", "loop", "done", "crashed"
    env,         \* process environment (MAIL_TOKEN, MAIL_API_URL)
    payload,     \* m.Data of the message being processed
    event,       \* var event Event
    isNew,       \* isNew
    tplOutcome,  \* how templates/alert.txt renders against this event
    resp,        \* what the directory GET of this message yielded
    fetchFailed, \* fetchAlerts returned an error
    alerts,      \* alerts, the decoded list
    idx,         \* position of the range loop (1-based)
    gets,        \* directory GETs made for this message
    renders,     \* per list position: calls of GetStringFromEmbeddedTemplate
    sends,       \* per list position: calls of sendEmail
    posts,       \* per list position: POSTs issued
    branch,      \* per list position: branch the loop body took
    contexts,    \* per list position: the render context, once rendered
    last,        \* the latest sendEmail call: position, recipient, reply, result
    log,         \* lines written by log.Printf for this message
    earlier,     \* history: the list the previous message fetched, if it fetched one
    other        \* a second invocation of the callback, when two run at once

vars == <<pc, env, payload, event, isNew, tplOutcome, resp, fetchFailed, alerts, idx,
          gets, renders, sends, posts, branch, contexts, last, log, earlier, other>>

NoResponse == [neterr |-> FALSE, status |-> 0, body |-> NoBody]
NoPayload == [json |-> FALSE, event |-> ZeroEvent]
NoSend == [at |-> 0, to |-> <<>>, err |-> FALSE, posts |-> 0, reply |-> NoReply]

\* No message has been processed before this one.
NoEarlier == [any |-> FALSE, alerts |-> <<>>]

\* The second invocation has not been made.
IdleOther ==
    [pc |-> "idle", event |-> ZeroEvent, isNew |-> FALSE, tpl |-> "ok",
     alerts |-> <<>>, idx |-> 0, branch |-> <<>>]

LogLine(kind, to, id, new) ==
    [kind |-> kind, to |-> to, id |-> id, new |-> new]

\* The process after main has subscribed: no message yet.
Init ==
    /\ pc = "idle"
    /\ env \in Environments
    /\ payload = NoPayload
    /\ event = ZeroEvent
    /\ isNew = FALSE
    /\ tplOutcome = "ok"
    /\ resp = NoResponse
    /\ fetchFailed = FALSE
    /\ alerts = <<>>
    /\ idx = 0
    /\ gets = 0
    /\ renders = <<>>
    /\ sends = <<>>
    /\ posts = <<>>
    /\ branch = <<>>
    /\ contexts = <<>>
    /\ last = NoSend
    /\ log = <<>>
    /\ earlier = NoEarlier
    /\ other = IdleOther

(***************************************************************************)
(* processMessage, step by step                                            *)
(***************************************************************************)

\* The subscription callback is invoked with a message: decode, isNew, log.
Receive(p, t) ==
    /\ pc \in {"idle", "done"}
    /\ LET d == JsonUnmarshalEvent(p)
       IN  /\ payload' = p
           /\ event' = d.event
           /\ IF d.err
              THEN /\ isNew' = FALSE
                   /\ tplOutcome' = "ok"
                   /\ log' = <<LogLine("decodeErr", <<>>, NilUuid, FALSE)>>
                   /\ pc' = "done"
              ELSE /\ isNew' = IsNewOf(d.event)
                   /\ tplOutcome' = t
                   /\ log' = <<LogLine("received", <<>>, NilUuid, IsNewOf(d.event))>>
                   /\ pc' = "decoded"
    /\ resp' = NoResponse
    /\ fetchFailed' = FALSE
    /\ alerts' = <<>>
    /\ idx' = 0
    /\ gets' = 0
    /\ renders' = <<>>
    /\ sends' = <<>>
    /\ posts' = <<>>
    /\ branch' = <<>>
    /\ contexts' = <<>>
    /\ last' = NoSend
    /\ UNCHANGED env

\* alerts, err := fetchAlerts(); on error log and return.
Fetch(r) ==
    /\ pc = "decoded"
    /\ LET f == FetchAlerts(r)
           n == Len(f.alerts)
       IN  /\ resp' = r
           /\ gets' = gets + 1
           /\ fetchFailed' = f.err
           /\ alerts' = f.alerts
           /\ renders' = [k \in 1..n |-> 0]
           /\ sends' = [k \in 1..n |-> 0]
           /\ posts' = [k \in 1..n |-> 0]
           /\ branch' = [k \in 1..n |-> "none"]
           /\ contexts' = [k \in 1..n |-> NoContext]
           /\ IF f.err
              THEN /\ log' = Append(log, LogLine("fetchErr", <<>>, NilUuid, FALSE))
                   /\ idx' = 0
                   /\ pc' = "done"
              ELSE /\ log' = log
                   /\ idx' = 1
                   /\ pc' = "loop"
    /\ UNCHANGED <<env, payload, event, isNew, tplOutcome, last>>

\* Mutant of NoMatch: the loop also steps over the following alert.
NoMatchSkippingNext ==
    /\ pc = "loop"
    /\ idx <= Len(alerts)
    /\ ~Matches(event, alerts[idx])
    /\ branch' = [branch EXCEPT ![idx] = "nomatch"]
    /\ idx' = idx + 2
    /\ UNCHANGED <<pc, env, payload, event, isNew, tplOutcome, resp, fetchFailed, alerts,
                   gets, renders, sends, posts, contexts, last, log>>

\* Loop body for an alert that does not apply.
NoMatch ==
    /\ pc = "loop"
    /\ idx <= Len(alerts)
    /\ ~Matches(event, alerts[idx])
    /\ branch' = [branch EXCEPT ![idx] = "nomatch"]
    /\ idx' = idx + 1
    /\ UNCHANGED <<pc, env, payload, event, isNew, tplOutcome, resp, fetchFailed, alerts,
                   gets, renders, sends, posts, contexts, last, log>>

\* Loop body for an alert that applies and whose render fails: log, continue.
RenderFailure ==
    /\ pc = "loop"
    /\ idx <= Len(alerts)
    /\ Matches(event, alerts[idx])
    /\ LET body == RenderContext(event, isNew)
           r == GetStringFromEmbeddedTemplate(tplOutcome, body)
       IN  /\ r.err
           /\ renders' = [renders EXCEPT ![idx] = @ + 1]
           /\ contexts' = [contexts EXCEPT ![idx] = body]
           /\ branch' = [branch EXCEPT ![idx] = "tplErr"]
           /\ log' = Append(log, LogLine("tplErr", <<>>, alerts[idx].Id, FALSE))
    /\ idx' = idx + 1
    /\ UNCHANGED <<pc, env, payload, event, isNew, tplOutcome, resp, fetchFailed, alerts,
                   gets, sends, posts, last>>

\* Loop body for an alert that applies and renders: sendEmail, then the log
\* line with maskEmail(alert.Email), which can panic and end the process.
Dispatch(reply) ==
    /\ pc = "loop"
    /\ idx <= Len(alerts)
    /\ Matches(event, alerts[idx])
    /\ LET body == RenderContext(event, isNew)
           r == GetStringFromEmbeddedTemplate(tplOutcome, body)
           s == SendEmail(env, reply)
           m == MaskEmail(alerts[idx].Email)
       IN  /\ ~r.err
           /\ renders' = [renders EXCEPT ![idx] = @ + 1]
           /\ contexts' = [contexts EXCEPT ![idx] = body]
           /\ sends' = [sends EXCEPT ![idx] = @ + 1]
           /\ posts' = [posts EXCEPT ![idx] = @ + s.posts]
           /\ last' = [at |-> idx, to |-> alerts[idx].Email, err |-> s.err,
                       posts |-> s.posts, reply |-> s.reply]
           /\ branch' = [branch EXCEPT ![idx] = IF s.err THEN "sendFail" ELSE "sent"]
           /\ IF m.panic
              THEN /\ pc' = "crashed"
                   /\ idx' = idx
                   /\ log' = log
              ELSE /\ pc' = pc
                   /\ idx' = idx + 1
                   /\ log' = Append(log,
                                IF s.err THEN LogLine("sendFail", m.text, alerts[idx].Id, FALSE)
                                         ELSE LogLine("sent", m.text, NilUuid, FALSE))
    /\ UNCHANGED <<env, payload, event, isNew, tplOutcome, resp, fetchFailed, alerts, gets>>

\* The range loop is exhausted: processMessage returns.
Return ==
    /\ pc = "loop"
    /\ idx > Len(alerts)
    /\ pc' = "done"
    /\ UNCHANGED <<env, payload, event, isNew, tplOutcome, resp, fetchFailed, alerts, idx,
                   gets, renders, sends, posts, branch, contexts, last, log>>

\* One subscription: nats.go runs its callback for one message at a time.
Next ==
    \/ \E p \in Payloads, t \in TemplateOutcomes :
          Receive(p, t) /\ UNCHANGED <<earlier, other>>
    \/ \E r \in DirectoryResponses : Fetch(r) /\ UNCHANGED <<earlier, other>>
    \/ NoMatch /\ UNCHANGED <<earlier, other>>
    \/ RenderFailure /\ UNCHANGED <<earlier, other>>
    \/ \E reply \in MailReplies : Dispatch(reply) /\ UNCHANGED <<earlier, other>>
    \/ Return /\ UNCHANGED <<earlier, other>>

Spec == Init /\ [][Next]_vars

(***************************************************************************)
(* Successive messages, with the list of the previous one remembered       *)
(***************************************************************************)

\* Receive, recording what the message before fetched.
ReceiveNext(p, t) ==
    /\ Receive(p, t)
    /\ earlier' = IF gets = 1 /\ ~fetchFailed THEN [any |-> TRUE, alerts |-> alerts]
                                               ELSE NoEarlier
    /\ UNCHANGED other

\* Mutant of FetchFresh: the list of the previous message is served from a
\* cache, without a GET.
FetchCached(r) ==
    /\ pc = "decoded"
    /\ IF earlier.any
       THEN /\ resp' = resp
            /\ gets' = gets
            /\ fetchFailed' = FALSE
            /\ alerts' = earlier.alerts
            /\ renders' = [k \in 1..Len(earlier.alerts) |-> 0]
            /\ sends' = [k \in 1..Len(earlier.alerts) |-> 0]
            /\ posts' = [k \in 1..Len(earlier.alerts) |-> 0]
            /\ branch' = [k \in 1..Len(earlier.alerts) |-> "none"]
            /\ contexts' = [k \in 1..Len(earlier.alerts) |-> NoContext]
            /\ log' = log
            /\ idx' = 1
            /\ pc' = "loop"
            /\ UNCHANGED <<env, payload, event, isNew, tplOutcome, last>>
       ELSE Fetch(r)
    /\ UNCHANGED <<earlier, other>>

\* fetchAlerts() of the current message: always a GET of its own.
FetchFresh(r) ==
    /\ Fetch(r)
    /\ UNCHANGED <<earlier, other>>

\* Inputs of the two-message runs: two events, three directory records.
FreshPayloads ==
    {p \in Payloads : p.json => p.event.ResourceID = <<"a", "-", "1">>}

FreshRecords ==
    {w \in WireAlerts : w.email \in {EmailBob, EmailNoAt} /\ w.id # WText(<<"z">>)}

FreshResponses ==
    {r \in DirectoryResponses :
        \A k \in 1..Len(r.body.records) : r.body.records[k] \in FreshRecords}

InitFresh ==
    /\ Init
    /\ env = [token |-> "secret", mailURLValid |-> TRUE]

NextFresh ==
    \/ \E p \in FreshPayloads, t \in TemplateOutcomes : ReceiveNext(p, t)
    \/ \E r \in FreshResponses : FetchFresh(r)
    \/ NoMatch /\ UNCHANGED <<earlier, other>>
    \/ RenderFailure /\ UNCHANGED <<earlier, other>>
    \/ \E reply \in MailReplies : Dispatch(reply) /\ UNCHANGED <<earlier, other>>
    \/ Return /\ UNCHANGED <<earlier, other>>

SpecFresh == InitFresh /\ [][NextFresh]_vars

(***************************************************************************)
(* Two invocations of the callback at once (the scheduling section 5 of    *)
(* the specification allows).  The first is the callback above; the second *)
(* runs the same code on the fields of other.  A panic in either ends the  *)
(* process, and with it both.                                              *)
(***************************************************************************)

callbackVars ==
    <<pc, env, payload, event, isNew, tplOutcome, resp, fetchFailed, alerts, idx,
      gets, renders, sends, posts, branch, contexts, last, log>>

\* processMessage of the second invocation: decode, isNew, log.
OtherReceive(p, t) ==
    /\ other.pc = "idle"
    /\ LET d == JsonUnmarshalEvent(p)
       IN  other' = IF d.err
                    THEN [IdleOther EXCEPT !.pc = "done"]
                    ELSE [IdleOther EXCEPT !.pc = "decoded", !.event = d.event,
                                           !.isNew = IsNewOf(d.event), !.tpl = t]
    /\ UNCHANGED <<callbackVars, earlier>>

\* fetchAlerts of the second invocation.
OtherFetch(r) ==
    /\ other.pc = "decoded"
    /\ LET f == FetchAlerts(r)
       IN  other' = IF f.err
                    THEN [other EXCEPT !.pc = "done"]
                    ELSE [other EXCEPT !.pc = "loop", !.alerts = f.alerts, !.idx = 1,
                                       !.branch = [k \in 1..Len(f.alerts) |-> "none"]]
    /\ UNCHANGED <<callbackVars, earlier>>

\* One pass of the loop body of the second invocation.
OtherIterate(reply) ==
    /\ other.pc = "loop"
    /\ other.idx <= Len(other.alerts)
    /\ LET a == other.alerts[other.idx]
           r == GetStringFromEmbeddedTemplate(other.tpl, RenderContext(other.event, other.isNew))
           s == SendEmail(env, reply)
           m == MaskEmail(a.Email)
           took == IF ~Matches(other.event, a) THEN "nomatch"
                   ELSE IF r.err THEN "tplErr"
                   ELSE IF s.err THEN "sendFail" ELSE "sent"
           panics == took \in {"sendFail", "sent"} /\ m.panic
       IN  other' = [other EXCEPT !.branch[other.idx] = took,
                                  !.idx = IF panics THEN @ ELSE @ + 1,
                                  !.pc = IF panics THEN "crashed" ELSE @]
    /\ UNCHANGED <<callbackVars, earlier>>

\* The loop of the second invocation is exhausted.
OtherReturn ==
    /\ other.pc = "loop"
    /\ other.idx > Len(other.alerts)
    /\ other' = [other EXCEPT !.pc = "done"]
    /\ UNCHANGED <<callbackVars, earlier>>

\* Directory records of the two-invocation runs.
ConcurrentRecords ==
    {w \in WireAlerts : w.id # WText(<<"z">>) /\ w.resource_id \in {WNull, WText(<<"b", "-", "1">>)}
                           /\ w.email \in {EmailBob, EmailNoAt, EmailNoLocal}}

ConcurrentResponses ==
    {r \in DirectoryResponses :
        \A k \in 1..Len(r.body.records) : r.body.records[k] \in ConcurrentRecords}

\* What the second invocation is given: one event, a list of at most one record.
OtherPayloads ==
    {p \in FreshPayloads : p.json /\ p.event.LastModified = ""}

OtherResponses ==
    {r \in ConcurrentResponses :
        ~r.neterr /\ r.status = StatusOK /\ r.body.json /\ Len(r.body.records) <= 1}

NextConcurrent ==
    \/ \E p \in FreshPayloads, t \in TemplateOutcomes :
          other.pc # "crashed" /\ Receive(p, t) /\ UNCHANGED <<earlier, other>>
    \/ \E r \in ConcurrentResponses :
          other.pc # "crashed" /\ Fetch(r) /\ UNCHANGED <<earlier, other>>
    \/ other.pc # "crashed" /\ NoMatch /\ UNCHANGED <<earlier, other>>
    \/ other.pc # "crashed" /\ RenderFailure /\ UNCHANGED <<earlier, other>>
    \/ \E reply \in MailReplies :
          other.pc # "crashed" /\ Dispatch(reply) /\ UNCHANGED <<earlier, other>>
    \/ other.pc # "crashed" /\ Return /\ UNCHANGED <<earlier, other>>
    \/ \E p \in OtherPayloads : pc # "crashed" /\ OtherReceive(p, "ok")
    \/ \E r \in OtherResponses : pc # "crashed" /\ OtherFetch(r)
    \/ \E reply \in MailReplies : pc # "crashed" /\ OtherIterate(reply)
    \/ pc # "crashed" /\ OtherReturn

SpecConcurrent == InitFresh /\ [][NextConcurrent]_vars

TypeOK ==
    /\ pc \in {"idle", "decoded", "loop", "done", "crashed"}
    /\ env \in Environments
    /\ Len(alerts) <= MaxAlerts
    /\ idx \in 0..(Len(alerts) + 1)

(***************************************************************************)
(* Vocabulary of the properties                                            *)
(***************************************************************************)

Positions == 1..Len(alerts)

\* The loop body has run (or is stuck in a panic) for position k.
Handled(k) == branch[k] # "none"

\* The fetch of the current message succeeded.
Fetched == gets = 1 /\ ~fetchFailed

ErrorKinds == {"decodeErr", "fetchErr", "tplErr", "sendFail"}

ErrorLines == {i \in 1..Len(log) : log[i].kind \in ErrorKinds}

Upper(c) ==
    CASE c = "a" -> "A"
      [] c = "b" -> "B"
      [] OTHER -> c

\* Equality of two texts once both are written in upper case.
SameTextIgnoringCase(s, t) ==
    [i \in 1..Len(s) |-> Upper(s[i])] = [i \in 1..Len(t) |-> Upper(t[i])]

\* Texts that denote a UUID: two hexadecimal digits, hyphenated or not.
UuidTexts ==
    LET D == HexDigits \cup {"A", "B"}
    IN  {<<x, y>> : x \in D, y \in D} \cup {<<x, "-", y>> : x \in D, y \in D}

\* The hyphenated writing of a UUID text sent by the directory.
Hyphenated(t) ==
    IF Len(t) = Len(<<"x", "x">>) THEN <<t[1], "-", t[2]>> ELSE t

WireOK(w) == w.null \/ w.text \in UuidTexts

\* The response is one the claim calls a failed fetch.
FailedResponse(r) ==
    \/ r.neterr
    \/ r.status # 200
    \/ ~r.body.json
    \/ \E k \in 1..Len(r.body.records) :
          ~WireOK(r.body.records[k].id) \/ ~WireOK(r.body.records[k].resource_id)

(***************************************************************************)
(* C1  Failure isolation: once a message whose fetch succeeded has ended,  *)
(* every matching subscription of the list has had its render attempt and, *)
(* the render succeeding, its dispatch attempt, whatever happened to the   *)
(* subscriptions before it, the maskEmail logging step included.           *)
(* Refuted: maskEmail panics on an address with an empty local part or     *)
(* domain, and the process dies with the rest of the list unprocessed.     *)
(***************************************************************************)
C1_FailureIsolation ==
    (pc \in {"done", "crashed"} /\ Fetched) =>
        \A k \in Positions :
            Matches(event, alerts[k]) =>
                /\ renders[k] = 1
                /\ tplOutcome = "ok" => sends[k] = 1

(***************************************************************************)
(* C2  A failed directory fetch (transport error, status other than 200,   *)
(* undecodable body or record) yields an error and no list; processMessage *)
(* then renders nothing, sends nothing, logs exactly one error and ends.   *)
(***************************************************************************)
C2_FetchFailureAborts ==
    gets = 1 =>
        /\ fetchFailed <=> FailedResponse(resp)
        /\ fetchFailed =>
              /\ pc = "done"
              /\ alerts = <<>>
              /\ renders = <<>> /\ sends = <<>> /\ posts = <<>>
              /\ last = NoSend
              /\ Cardinality(ErrorLines) = 1
              /\ log[Len(log)].kind = "fetchErr"

C2_Witness ==
    /\ pc = "done"
    /\ fetchFailed
    /\ ~resp.neterr /\ resp.status = 200 /\ resp.body.json
    /\ Len(resp.body.records) = 2
    /\ WireOK(resp.body.records[1].id) /\ WireOK(resp.body.records[1].resource_id)
    /\ ~WireOK(resp.body.records[2].resource_id)
    /\ Len(log) = 2

(***************************************************************************)
(* C3  A payload that does not decode is logged and the message is         *)
(* abandoned: no directory GET, no list, no render, no dispatch.           *)
(***************************************************************************)
C3_DecodeFailureAborts ==
    (pc # "idle" /\ ~payload.json) =>
        /\ pc = "done"
        /\ gets = 0 /\ resp = NoResponse
        /\ alerts = <<>> /\ branch = <<>>
        /\ renders = <<>> /\ sends = <<>> /\ posts = <<>>
        /\ last = NoSend
        /\ Len(log) = 1 /\ log[1].kind = "decodeErr"

C3_Witness ==
    /\ pc = "done"
    /\ ~payload.json
    /\ log = <<LogLine("decodeErr", <<>>, NilUuid, FALSE)>>

C5_ResourceMatchIgnoresCase ==
    Fetched =>
        \A k \in Positions :
            (Handled(k) /\ ~alerts[k].All /\ alerts[k].ResourceId # NilUuid) =>
                (branch[k] # "nomatch" <=>
                    SameTextIgnoringCase(event.ResourceID,
                                         Hyphenated(resp.body.records[k].resource_id.text)))

C5_Witness ==
    /\ Fetched
    /\ \E k \in Positions :
          /\ ~alerts[k].All
          /\ resp.body.records[k].resource_id.text = <<"A", "-", "1">>
          /\ event.ResourceID = <<"a", "-", "1">>
          /\ branch[k] = "sent"

(***************************************************************************)
(* C6  A subscription with all=true matches every event, whether its own   *)
(* resource identifier is null, equal to the event's or different.         *)
(***************************************************************************)
C6_AllMatchesEveryEvent ==
    Fetched =>
        \A k \in Positions :
            (Handled(k) /\ alerts[k].All) =>
                /\ branch[k] # "nomatch"
                /\ renders[k] = 1

C6_Witness ==
    /\ pc = "done"
    /\ Fetched
    /\ Len(alerts) = 2
    /\ alerts[1].All /\ alerts[1].ResourceId = NilUuid
    /\ alerts[2].All /\ alerts[2].ResourceId # NilUuid
    /\ ~SameTextIgnoringCase(event.ResourceID,
                             Hyphenated(resp.body.records[2].resource_id.text))
    /\ renders = <<1, 1>>

(***************************************************************************)
(* C7  A subscription with all=false and no resource identifier matches no *)
(* event, the event with an empty resource identifier included: it is      *)
(* never rendered and never dispatched.                                    *)
(***************************************************************************)
C7_NoResourceNeverMatches ==
    Fetched =>
        \A k \in Positions :
            (~alerts[k].All /\ alerts[k].ResourceId = NilUuid) =>
                /\ branch[k] \in {"none", "nomatch"}
                /\ renders[k] = 0 /\ sends[k] = 0 /\ posts[k] = 0

C7_Witness ==
    /\ pc = "done"
    /\ Fetched
    /\ event.ResourceID = <<>>
    /\ \E k \in Positions :
          /\ ~alerts[k].All
          /\ resp.body.records[k].resource_id.null
          /\ branch[k] = "nomatch"

(***************************************************************************)
(* C8  isNew is true exactly when the decoded LAST-MODIFIED is empty; it   *)
(* is set before the directory GET and every render of the message gets    *)
(* that value, with the event, as its context.                             *)
(***************************************************************************)
C8_IsNewOncePerEvent ==
    (pc # "idle" /\ payload.json) =>
        /\ isNew <=> payload.event.LastModified = ""
        /\ log[1] = LogLine("received", <<>>, NilUuid, payload.event.LastModified = "")
        /\ pc = "decoded" => gets = 0
        /\ \A k \in Positions :
              renders[k] > 0 =>
                  /\ contexts[k].IsNew <=> payload.event.LastModified = ""
                  /\ contexts[k].Event = payload.event

C8_Witness ==
    /\ pc = "done"
    /\ payload.event.LastModified # ""
    /\ Len(alerts) = 2
    /\ renders = <<1, 1>>
    /\ ~contexts[1].IsNew /\ ~contexts[2].IsNew

(***************************************************************************)
(* C9  sendEmail succeeds exactly when a POST was made and answered 204; a *)
(* transport error or any other status is an error, and processMessage     *)
(* then takes the dispatch-failure branch for that subscription.           *)
(***************************************************************************)
C9_SuccessIsStatus204 ==
    last.at # 0 =>
        /\ ~last.err <=> (last.posts = 1 /\ ~last.reply.neterr /\ last.reply.status = 204)
        /\ branch[last.at] = IF last.err THEN "sendFail" ELSE "sent"
        /\ last.to = alerts[last.at].Email

C9_Witness ==
    /\ last.at # 0
    /\ last.posts = 1
    /\ last.reply.status = 200
    /\ last.err
    /\ branch[last.at] = "sendFail"
    /\ log[Len(log)].kind = "sendFail"

(***************************************************************************)
(* C10  With MAIL_TOKEN empty every sendEmail call fails before any POST,  *)
(* the failure is that subscriber's alone and the loop goes on to the next *)
(* subscription.  Refuted: the failure line calls maskEmail, which panics  *)
(* on an address with an empty local part or domain (see C1).              *)
(***************************************************************************)
C10_MissingTokenFailsOneSubscriber ==
    (env.token = "" /\ last.at # 0) =>
        /\ last.err /\ last.posts = 0 /\ posts[last.at] = 0
        /\ branch[last.at] = "sendFail"
        /\ pc \in {"loop", "done"}
        /\ idx > last.at

(***************************************************************************)
(* Vocabulary of the later properties                                      *)
(***************************************************************************)

AtSigns(e) == {i \in 1..Len(e) : e[i] = "@"}

\* The mask the specification describes: with exactly one '@', what there
\* is of the first character of the local part, "***@***", and what there
\* is of the last character of the domain; the fixed mask otherwise.
DescribedMask(e) ==
    IF Cardinality(AtSigns(e)) # 1 THEN <<"*", "*", "*", "@", "*", "*", "*">>
    ELSE LET at == CHOOSE i \in AtSigns(e) : TRUE
             head == IF at > 1 THEN <<e[1]>> ELSE <<>>
             tail == IF at < Len(e) THEN <<e[Len(e)]>> ELSE <<>>
         IN  head \o <<"*", "*", "*", "@", "*", "*", "*">> \o tail

\* The matching rule as the specification words it, on the directory's record.
DescribedMatch(k) ==
    LET w == resp.body.records[k]
    IN  \/ w.all
        \/ /\ ~w.resource_id.null
           /\ SameTextIgnoringCase(event.ResourceID, Hyphenated(w.resource_id.text))

\* Positions whose loop body wrote its log line.
Logged ==
    {k \in Positions : branch[k] \in {"tplErr", "sendFail", "sent"}
                          /\ ~(pc = "crashed" /\ k = idx)}

(***************************************************************************)
(* C11  maskEmail is defined for every address: one '@' gives the first    *)
(* character of the local part, "***@***" and the last character of the    *)
(* domain, also with an empty local part or domain; any other address      *)
(* gives "***@***".  Refuted: with an empty local part or domain the       *)
(* indexing panics and no mask is produced.                                *)
(***************************************************************************)
C11_MaskDefinedForEveryAddress ==
    last.at # 0 =>
        /\ pc # "crashed"
        /\ log[Len(log)].to = DescribedMask(last.to)

(***************************************************************************)
(* C12  A subscription is dispatched only once its own render succeeded; a *)
(* render failure is logged with the subscription identifier, causes no    *)
(* sendEmail call for that subscription, and the loop goes on.             *)
(***************************************************************************)
C12_DispatchOnlyAfterRender ==
    \A k \in Positions :
        /\ sends[k] > 0 => (renders[k] = 1 /\ tplOutcome = "ok")
        /\ branch[k] = "tplErr" =>
              /\ renders[k] = 1 /\ sends[k] = 0 /\ posts[k] = 0
              /\ tplOutcome # "ok"
              /\ \E i \in 1..Len(log) :
                    log[i] = LogLine("tplErr", <<>>, alerts[k].Id, FALSE)
              /\ idx > k
              /\ pc \in {"loop", "done"}

C12_Witness ==
    /\ pc = "done"
    /\ Len(alerts) = 2
    /\ branch = <<"tplErr", "tplErr">>
    /\ alerts[1].Id # alerts[2].Id
    /\ log[2].id = alerts[1].Id /\ log[3].id = alerts[2].Id
    /\ sends = <<0, 0>>

(***************************************************************************)
(* C13  Only matching subscribers are notified: every render and every     *)
(* sendEmail call is for a subscription of the fetched list that matches,  *)
(* the recipient is that subscription's email, and a subscription that     *)
(* does not match causes no render, no dispatch and no log line.           *)
(***************************************************************************)
C13_OnlyMatchingNotified ==
    Fetched =>
        /\ \A k \in Positions :
              /\ (renders[k] > 0 \/ sends[k] > 0 \/ posts[k] > 0) => DescribedMatch(k)
              /\ (Handled(k) /\ ~DescribedMatch(k)) =>
                    (branch[k] = "nomatch" /\ renders[k] = 0 /\ sends[k] = 0)
        /\ last.at # 0 =>
              (last.at \in Positions /\ last.to = resp.body.records[last.at].email)
        /\ Len(log) = 1 + Cardinality(Logged)

C13_Witness ==
    /\ pc = "done"
    /\ Len(alerts) = 2
    /\ branch = <<"nomatch", "sent">>
    /\ last.at = 2
    /\ last.to = resp.body.records[2].email
    /\ resp.body.records[1].email # resp.body.records[2].email
    /\ Len(log) = 2

(***************************************************************************)
(* C14  Subscriptions are fetched fresh per event: a decoded message makes *)
(* exactly one directory GET, after the decode and before any render or    *)
(* dispatch, and the loop runs over the list that GET returned, never over *)
(* the list of an earlier message.                                         *)
(***************************************************************************)
C14_FetchedFreshPerEvent ==
    /\ gets <= 1
    /\ pc = "decoded" =>
          (gets = 0 /\ resp = NoResponse /\ alerts = <<>> /\ renders = <<>> /\ sends = <<>>)
    /\ (pc \in {"loop", "crashed"} \/ (pc = "done" /\ payload.json)) => gets = 1
    /\ ~Fetched => (alerts = <<>> /\ renders = <<>> /\ sends = <<>>)
    /\ Fetched =>
          /\ ~resp.neterr /\ resp.status = 200 /\ resp.body.json
          /\ Len(alerts) = Len(resp.body.records)
          /\ \A k \in Positions :
                /\ alerts[k].Email = resp.body.records[k].email
                /\ alerts[k].All = resp.body.records[k].all
                /\ alerts[k].ResourceId = NilUuid <=> resp.body.records[k].resource_id.null
                /\ alerts[k].Id = NilUuid <=> resp.body.records[k].id.null

C14_Witness ==
    /\ pc = "done"
    /\ Fetched
    /\ earlier.any
    /\ Len(earlier.alerts) = 1
    /\ earlier.alerts[1].Email = EmailNoAt
    /\ Len(alerts) = 2
    /\ alerts[1].Email = EmailBob
    /\ branch = <<"sent", "sent">>

\* The log line position k writes, by the branch it took.
LineOf(k) ==
    CASE branch[k] = "tplErr" -> LogLine("tplErr", <<>>, alerts[k].Id, FALSE)
      [] branch[k] = "sendFail" ->
            LogLine("sendFail", DescribedMask(alerts[k].Email), alerts[k].Id, FALSE)
      [] OTHER -> LogLine("sent", DescribedMask(alerts[k].Email), NilUuid, FALSE)

\* The lines of the positions up to n that logged, in list order.
RECURSIVE LinesUpTo(_)
LinesUpTo(n) ==
    IF n = 0 THEN <<>>
    ELSE LinesUpTo(n - 1) \o (IF n \in Logged THEN <<LineOf(n)>> ELSE <<>>)

(***************************************************************************)
(* C15  Within one message the work follows the list order, one            *)
(* subscription at a time: the positions worked on are exactly those       *)
(* before the loop position, nothing has been done for a later one, the    *)
(* latest dispatch is the last dispatched position, and the log lines      *)
(* stand in list order.                                                    *)
(***************************************************************************)
C15_ListOrder ==
    Fetched =>
        /\ \A k \in Positions :
              /\ Handled(k) <=> (k < idx \/ (k = idx /\ pc = "crashed"))
              /\ ~Handled(k) => (renders[k] = 0 /\ sends[k] = 0 /\ posts[k] = 0)
        /\ \A k \in Positions : sends[k] > 0 => (last.at # 0 /\ k <= last.at)
        /\ last.at # 0 => (last.at \in Positions /\ sends[last.at] = 1)
        /\ log = <<LogLine("received", <<>>, NilUuid, isNew)>> \o LinesUpTo(Len(alerts))

C15_Witness ==
    /\ pc = "done"
    /\ Len(alerts) = 2
    /\ alerts[1].Email = EmailBob
    /\ alerts[2].Email = EmailTwoAt
    /\ branch = <<"sendFail", "sent">>
    /\ log[2].kind = "sendFail" /\ log[2].to = <<"b", "*", "*", "*", "@", "*", "*", "*", "x">>
    /\ log[3].kind = "sent" /\ log[3].to = FixedMask

Matching == {k \in Positions : DescribedMatch(k)}

(***************************************************************************)
(* C17  Each matching subscription ends in exactly one logged outcome: a   *)
(* render-failure line with its identifier, a dispatch-failure line with   *)
(* the masked recipient and its identifier, or a success line with the     *)
(* masked recipient; no line carries the raw address.  Refuted: when       *)
(* maskEmail panics the subscription just dispatched gets no line at all.  *)
(***************************************************************************)
C17_OneLoggedOutcomePerMatch ==
    Fetched =>
        /\ \A k \in Matching :
              Handled(k) =>
                  /\ branch[k] \in {"tplErr", "sendFail", "sent"}
                  /\ \E i \in 2..Len(log) : log[i] = LineOf(k)
        /\ Len(log) = 1 + Cardinality({k \in Matching : Handled(k)})
        /\ \A i \in 1..Len(log) : \A k \in Positions : log[i].to # alerts[k].Email

(***************************************************************************)
(* C18  Processing of every message ends normally: processMessage returns, *)
(* never terminating abnormally, after at most one directory fetch and at  *)
(* most one render and one dispatch per subscription.  Refuted: the        *)
(* maskEmail panic is an abnormal termination.                             *)
(***************************************************************************)
C18_ReturnsNormally ==
    /\ pc # "crashed"
    /\ gets <= 1
    /\ \A k \in Positions : renders[k] <= 1 /\ sends[k] <= 1

(***************************************************************************)
(* C19  Every matching subscription of a message is rendered from the same *)
(* template and context, so once the message has ended either every        *)
(* matching subscriber was dispatched the same subject and body, or every  *)
(* render failed and nothing was dispatched.  Refuted: after a maskEmail   *)
(* panic the matching subscribers further down the list are neither        *)
(* rendered nor dispatched (see C1).                                       *)
(***************************************************************************)
C19_SameRenderForAll ==
    (Fetched /\ pc \in {"done", "crashed"}) =>
        \/ \A k \in Matching :
              /\ renders[k] = 1 /\ sends[k] = 1
              /\ contexts[k] = RenderContext(payload.event, payload.event.LastModified = "")
              /\ tplOutcome = "ok"
        \/ /\ \A k \in Matching : renders[k] = 1 /\ branch[k] = "tplErr"
           /\ \A k \in Positions : sends[k] = 0

====
